---- MODULE Spec2Model ----
(***************************************************************************)
(* Review aggregation and rating consistency of Mamae Review.              *)
(*                                                                         *)
(* The document store holds two collections, products and reviews.  The    *)
(* review module (src/lib/reviews.ts) inserts reviews and recomputes the   *)
(* product's mean rating; the ProductReviews component is its caller; the  *)
(* product forms create, edit and delete products.  Every store call is an *)
(* asynchronous request: the step at which it is served by the store is    *)
(* one action, and it may as well fail.                                    *)
(*                                                                         *)
(* Ratings are kept in tenths (4.3 stars is 43), so a number with one      *)
(* decimal place is an integer.                                            *)
(***************************************************************************)
EXTENDS Integers, Sequences, FiniteSets, TLC

\* ---- bounds -------------------------------------------------------------
MaxReviews == 2
\* reviews a product has when its rating is recomputed from a stored list
MaxCount == 20
\* length of the stored lists whose documents are drawn freely
MaxLen == 3
\* runs of the subscription effect of one ProductReviews instance
MaxEffects == 3
\* redirects of ProtectedRoute
MaxPushes == 2

ProductIds == {"p1", "p2"}
Users == {"u1", "u2"}
\* the users who own products
Owners == {"u1"}
\* the products the application specification lists and opens pages of
Catalog == {"p1"}
\* the callers the module-level specification follows
ApiCallers == {"s1"}
Sessions == {"s1", "s2"}
\* ratings passed to createReview, in tenths (reviewSchema: 1..5)
ReviewRatings == {40, 45}
\* ratings of the stored lists that are drawn freely, in tenths: 1.0, 2.5, 4.5, 5.0
StatRatings == {10, 25, 45, 50}
\* the rating the review form of the application specification submits
\* ratings of the stored reviews the recomputation is compared with the statistics on
AgreeRatings == {10, 30, 40, 50}
\* ratings a caller of createReview may store: 0, 5.5 and 6.0 round outside 1..5
WideRatings == {0, 30, 45, 55, 60}
FormStars == {40}
\* values the product forms submit for the rating field, in tenths (productSchema: 0..5)
FormRatings == {0, 45}

NoUser == "nobody"
\* a product identifier the store has not used yet, and one whose document was deleted
NoDoc == [exists |-> FALSE, used |-> FALSE, rating |-> 0, createdBy |-> NoUser, createdAt |-> 0]
Deleted == [exists |-> FALSE, used |-> TRUE, rating |-> 0, createdBy |-> NoUser, createdAt |-> 0]

\* the text of a review: the form takes 10 to 500 characters
Comment == "um comentario"
\* argument of a caller that has not called anything yet
NoArg == [productId |-> "p1", authorId |-> NoUser, rating |-> 0]

\* stats of a caller that has not called calculateReviewStats yet
NoStats == [called |-> FALSE]

\* type ReviewSortBy = 'recent' | 'rating', and the default of the sortBy parameters
SortBys == {"recent", "rating"}
DefaultSortBy == "recent"

\* arguments of a caller that has not subscribed yet
NoSubArg == [productId |-> "p1", sortBy |-> DefaultSortBy]

ConfigError == "Firestore nao esta configurado"
StoreError == "store_error"

VARIABLES
  dbOk,        \* firebase.ts: db is initialized
  products,    \* collection 'products': id -> document, NoDoc (id never used) or Deleted
  reviews,     \* collection 'reviews': documents in insertion order
  mounted,     \* ProductReviews instances that are mounted
  user,        \* useAuth().user of the instance
  productId,   \* the instance's productId prop
  hasReviewed, \* useState hasReviewed
  submitting,  \* useState submitting
  toast,       \* last toast the instance showed
  checkPc,     \* checkUserReview: "idle" | "pending"
  checkRet,    \* how the last hasUserReviewed call settled
  checkArg,    \* <<productId, userId>> of the last hasUserReviewed call
  sub,         \* subscribeToProductReviews: "none" | "active" | "threw" | "failed"
  pc,          \* position of the call in flight: "idle" | "addDoc" | "getDocs" | "updateDoc"
  fn,          \* the exported function the caller invoked last
  arg,         \* its argument (ReviewInput; only productId is used by the other functions)
  newId,       \* reviewDoc.id inside createReview, and the id it returned
  snap,        \* the array getProductReviews returned (local 'reviews' of updateProductRating)
  ret,         \* how the last call settled: "none" | "pending" | "ok" | an error
  feed,        \* the arrays the onSnapshot listener has passed to the callback, in order
  stats,       \* what the caller's last calculateReviewStats call returned
  subArg,      \* productId and sortBy of the last subscribeToProductReviews call
  handles,     \* per instance, how often each Unsubscribe its effect received was invoked
  stale,       \* checkUserReview calls of earlier renders that are still in flight
  authPc,      \* AuthProvider: "unmounted" | "off" (no firebaseAuth) | "listening"
  authUser,    \* AuthProvider: useState user
  authLoading, \* AuthProvider: useState loading
  shown,       \* what ProtectedRoute returned last: "unrendered" | "spinner" | "null" | "children"
  seen,        \* the <<user, loading>> of ProtectedRoute's last render
  pushed       \* the router.push calls of ProtectedRoute, in order

storeVars == <<products, reviews>>
compVars == <<mounted, user, productId, hasReviewed, submitting, toast>>
checkVars == <<checkPc, checkRet, checkArg>>
callVars == <<pc, fn, arg, newId, snap, ret>>
viewVars == <<feed, stats, subArg>>
authVars == <<authPc, authUser, authLoading, shown, seen, pushed>>
pageVars == <<handles, stale, authVars>>
vars == <<dbOk, products, reviews, mounted, user, productId, hasReviewed,
          submitting, toast, checkPc, checkRet, checkArg, sub, pc, fn, arg, newId,
          snap, ret, feed, stats, subArg, handles, stale, authPc, authUser,
          authLoading, shown, seen, pushed>>

\* ---- pure helpers ---------------------------------------------------------
RECURSIVE SumSeq(_)
\* reviews.reduce((sum, review) => sum + review.rating, 0) over a list of ratings
SumSeq(s) == IF s = <<>> THEN 0 ELSE Head(s) + SumSeq(Tail(s))

\* toFixed replaced by a rounding up to the next tenth
ToFixed1Ceiling(total, n) == (total + n - 1) \div n

\* toFixed replaced by a truncation to one decimal place
ToFixed1Truncating(total, n) == total \div n

RECURSIVE PowMod(_, _, _)
\* b^e modulo m
PowMod(b, e, m) == IF e = 0 THEN 1 % m ELSE (b * PowMod(b, e - 1, m)) % m

\* the binary exponent e of the quotient num / den: 2^e <= num / den < 2^(e+1)
Exponent(num, den) ==
  CHOOSE e \in -4..3 : den * 2^(e + 4) <= 16 * num /\ 16 * num < den * 2^(e + 5)

\* totalRating / reviews.length is a double: the quotient num / den rounded to 53
\* significant bits, to nearest and a tie to even.  TRUE when that double is
\* not below num / den.  r2 / (2 * den) is the part of the quotient below the
\* last two kept bits.
QuotientNotBelow(num, den) ==
  LET r2 == (num * PowMod(2, 52 - Exponent(num, den), 2 * den)) % (2 * den)
      r  == r2 % den
  IN  IF r = 0 THEN TRUE
      ELSE IF 2 * r # den THEN 2 * r > den
      ELSE r2 >= den

\* Number((total / n).toFixed(1)) in tenths, total in tenths and n > 0.  toFixed(1)
\* gives the tenth nearest the double it is called on, the larger one when the
\* double is exactly halfway.  The double total / (10 * n) is within 2^-50 of the
\* mean, so it only decides when the mean itself is halfway between two tenths.
ToFixed1(total, n) ==
  LET k == total \div n
      rem == total % n
  IN  IF 2 * rem < n THEN k
      ELSE IF 2 * rem > n THEN k + 1
      ELSE IF QuotientNotBelow(total, 10 * n) THEN k + 1 ELSE k

RECURSIVE Reverse(_)
Reverse(s) == IF s = <<>> THEN <<>> ELSE Append(Reverse(Tail(s)), Head(s))

\* a query that gives the newest matching review only
GetProductReviewsNewestOnly(revs, p) ==
  LET docs == Reverse(SelectSeq(revs, LAMBDA r : r.productId = p))
  IN  IF docs = <<>> THEN <<>> ELSE <<Head(docs)>>

\* getProductReviews(productId) with the default sortBy 'recent':
\* where productId == p, orderBy createdAt desc.  The collection is kept in
\* insertion order and createdAt grows with every insert.
GetProductReviews(revs, p) ==
  Reverse(SelectSeq(revs, LAMBDA r : r.productId = p))

\* a query that orders by createdAt whatever sortBy is
OrderByFieldAlwaysCreatedAt(sortBy) == "createdAt"

\* orderBy field of the query: sortBy === 'recent' ? 'createdAt' : 'rating'
OrderByField(sortBy) == IF sortBy = "recent" THEN "createdAt" ELSE "rating"

\* where('productId', '==', p): the documents of the collection the filter keeps
Matching(revs, p) == {revs[i] : i \in {j \in 1..Len(revs) : revs[j].productId = p}}

\* orderBy(field, 'desc'): docs is in descending order of field
IsDescending(docs, field) ==
  \A i \in 1..(Len(docs) - 1) : docs[i][field] >= docs[i + 1][field]

\* the arrays the query of getProductReviews(p, sortBy) and of the listener may
\* give: every matching document once, in descending order of the orderBy field.
\* createdAt differs from document to document, so 'recent' has one answer;
\* documents of equal rating come in the order of their generated ids, which is
\* any order.
QueryResults(revs, p, sortBy) ==
  IF sortBy = "recent"
    THEN {GetProductReviews(revs, p)}
    ELSE LET M == Matching(revs, p)
             n == Cardinality(M)
         IN  {docs \in [1..n -> M] :
                /\ \A i, j \in 1..n : docs[i] = docs[j] => i = j
                /\ IsDescending(docs, OrderByField(sortBy))}

\* the ratings of a list of review documents
RatingsOf(docs) == [i \in 1..Len(docs) |-> docs[i].rating]

\* the two where clauses with their values exchanged
\* a query with the author filter only
HasUserReviewedAnyProduct(revs, p, u) ==
  \E i \in 1..Len(revs) : revs[i].authorId = u

HasUserReviewedSwapped(revs, p, u) ==
  \E i \in 1..Len(revs) : revs[i].productId = u /\ revs[i].authorId = p

\* hasUserReviewed: where productId == p and authorId == u; !querySnapshot.empty
HasUserReviewed(revs, p, u) ==
  \E i \in 1..Len(revs) : revs[i].productId = p /\ revs[i].authorId = u

\* an insert that the store skips when the author has a review of the product
AddReviewDocIfAbsent(revs, data, now) ==
  IF HasUserReviewed(revs, data.productId, data.authorId)
    THEN revs
    ELSE Append(revs, [id |-> Len(revs) + 1, productId |-> data.productId,
                       authorId |-> data.authorId, rating |-> data.rating,
                       comment |-> data.comment, createdAt |-> now])

\* an insert that overwrites the review the author already has of the product
AddReviewDocReplacing(revs, data, now) ==
  IF HasUserReviewed(revs, data.productId, data.authorId)
    THEN [i \in 1..Len(revs) |->
            IF revs[i].productId = data.productId /\ revs[i].authorId = data.authorId
              THEN [revs[i] EXCEPT !.rating = data.rating, !.createdAt = now]
              ELSE revs[i]]
    ELSE Append(revs, [id |-> Len(revs) + 1, productId |-> data.productId,
                       authorId |-> data.authorId, rating |-> data.rating,
                       comment |-> data.comment, createdAt |-> now])

\* addDoc(reviewsRef, {...data, createdAt: serverTimestamp()})
AddReviewDoc(revs, data, now) ==
  Append(revs, [id |-> Len(revs) + 1, productId |-> data.productId,
                authorId |-> data.authorId, rating |-> data.rating,
                comment |-> data.comment, createdAt |-> now])

\* a write that replaces the whole document by {rating}
SetRatingReplacing(prods, p, r) ==
  [prods EXCEPT ![p] = [exists |-> TRUE, used |-> TRUE, rating |-> r,
                        createdBy |-> NoUser, createdAt |-> 0]]

\* updateDoc(productRef, {rating: ...}): merge into an existing document
SetRating(prods, p, r) == [prods EXCEPT ![p].rating = r]

IsDoc(d) == d.exists

\* serverTimestamp(): the store's clock, which every review insert advances
ServerTimestamp(revs) == Len(revs) + 1

\* ---- initial state --------------------------------------------------------
Init ==
  /\ dbOk \in BOOLEAN
  /\ products = [p \in ProductIds |-> NoDoc]
  /\ reviews = <<>>
  /\ mounted = {}
  /\ user = [s \in Sessions |-> NoUser]
  /\ productId = [s \in Sessions |-> "p1"]
  /\ hasReviewed = [s \in Sessions |-> FALSE]
  /\ submitting = [s \in Sessions |-> FALSE]
  /\ toast = [s \in Sessions |-> "none"]
  /\ checkPc = [s \in Sessions |-> "idle"]
  /\ checkRet = [s \in Sessions |-> "none"]
  /\ checkArg = [s \in Sessions |-> <<"p1", NoUser>>]
  /\ sub = [s \in Sessions |-> "none"]
  /\ pc = [s \in Sessions |-> "idle"]
  /\ fn = [s \in Sessions |-> "none"]
  /\ arg = [s \in Sessions |-> NoArg]
  /\ newId = [s \in Sessions |-> 0]
  /\ snap = [s \in Sessions |-> <<>>]
  /\ ret = [s \in Sessions |-> "none"]
  /\ feed = [s \in Sessions |-> <<>>]
  /\ stats = [s \in Sessions |-> NoStats]
  /\ subArg = [s \in Sessions |-> NoSubArg]
  /\ handles = [s \in Sessions |-> <<>>]
  /\ stale = [s \in Sessions |-> {}]
  /\ authPc = "unmounted"
  /\ authUser = NoUser
  /\ authLoading = TRUE
  /\ shown = "unrendered"
  /\ seen = <<NoUser, TRUE>>
  /\ pushed = <<>>

\* ---- the review module (src/lib/reviews.ts) ----------------------------------
\* createReview without its guard
DbConfiguredNotChecked(f) == f = "createReview" \/ dbOk

\* if (!db) throw new Error('Firestore nao esta configurado'), first statement of
\* every exported function f
DbConfigured(f) == dbOk

\* the guards a call of f passes before its first store request
CanStart(f) ==
  CASE f = "createReview" -> DbConfigured("createReview")
    [] f = "updateProductRating" ->
         DbConfigured("updateProductRating") /\ DbConfigured("getProductReviews")
    [] f = "getProductReviews" -> DbConfigured("getProductReviews")
    [] f = "hasUserReviewed" -> DbConfigured("hasUserReviewed")
    [] f = "subscribeToProductReviews" -> DbConfigured("subscribeToProductReviews")

\* createReview going to the recomputation without its insert
FirstRequestSkipsInsert(f) == "getDocs"

\* the first store request of f
FirstRequest(f) == IF f = "createReview" THEN "addDoc" ELSE "getDocs"

Errors == {ConfigError, StoreError}

\* inserts that may still land: stored documents and addDoc requests in flight
Inserting == Len(reviews) + Cardinality({s \in Sessions : pc[s] = "addDoc"})

\* the onSubmit continuation of ProductReviews once its createReview call settled:
\* toast, setHasReviewed(true) on success, setSubmitting(false) in finally
OnSubmitSettled(s, ok) ==
  IF s \in mounted /\ fn[s] = "createReview"
    THEN /\ toast' = [toast EXCEPT ![s] = IF ok THEN "success" ELSE "error"]
         /\ hasReviewed' = [hasReviewed EXCEPT ![s] = IF ok THEN TRUE ELSE @]
         /\ submitting' = [submitting EXCEPT ![s] = FALSE]
    ELSE UNCHANGED <<toast, hasReviewed, submitting>>

\* a caller invokes createReview, updateProductRating or getProductReviews
Invoke(s, f, a) ==
  /\ fn' = [fn EXCEPT ![s] = f]
  /\ arg' = [arg EXCEPT ![s] = a]
  /\ newId' = [newId EXCEPT ![s] = 0]
  /\ snap' = [snap EXCEPT ![s] = <<>>]
  /\ IF CanStart(f)
       THEN /\ pc' = [pc EXCEPT ![s] = FirstRequest(f)]
            /\ ret' = [ret EXCEPT ![s] = "pending"]
       ELSE /\ pc' = [pc EXCEPT ![s] = "idle"]
            /\ ret' = [ret EXCEPT ![s] = ConfigError]

\* createReview: addDoc resolves; the function goes on to updateProductRating,
\* which calls getProductReviews, which issues getDocs
AddDocOk(s) ==
  /\ pc[s] = "addDoc"
  /\ reviews' = AddReviewDoc(reviews, arg[s], ServerTimestamp(reviews))
  /\ newId' = [newId EXCEPT ![s] = Len(reviews) + 1]
  /\ IF CanStart("updateProductRating")
       THEN /\ pc' = [pc EXCEPT ![s] = "getDocs"]
            /\ ret' = ret
            /\ UNCHANGED <<toast, hasReviewed, submitting>>
       ELSE /\ pc' = [pc EXCEPT ![s] = "idle"]
            /\ ret' = [ret EXCEPT ![s] = ConfigError]
            /\ OnSubmitSettled(s, FALSE)
  /\ UNCHANGED <<pageVars, dbOk, products, mounted, user, productId, checkVars, sub, viewVars, fn, arg, snap>>

\* createReview: addDoc rejects; catch logs and rethrows
AddDocFail(s) ==
  /\ pc[s] = "addDoc"
  /\ pc' = [pc EXCEPT ![s] = "idle"]
  /\ ret' = [ret EXCEPT ![s] = StoreError]
  /\ OnSubmitSettled(s, FALSE)
  /\ newId' = [newId EXCEPT ![s] = 0]
  /\ snap' = [snap EXCEPT ![s] = <<>>]
  /\ UNCHANGED <<pageVars, dbOk, storeVars, mounted, user, productId, checkVars, sub, viewVars, fn, arg>>

\* the sortBy of the getProductReviews call in flight: the caller's, or the default
\* when updateProductRating calls getProductReviews(productId)
SortByOf(s) == IF "sortBy" \in DOMAIN arg[s] THEN arg[s].sortBy ELSE DefaultSortBy

\* getProductReviews: getDocs resolves.  getProductReviews returns the array; inside
\* updateProductRating an empty array makes it return, any other makes it issue
\* updateDoc with the rounded mean.
GetDocsOk(s) ==
  /\ pc[s] = "getDocs"
  /\ \E docs \in QueryResults(reviews, arg[s].productId, SortByOf(s)) :
     LET done == fn[s] = "getProductReviews" \/ Len(docs) = 0
     IN /\ snap' = [snap EXCEPT ![s] = docs]
        /\ IF done
             THEN /\ pc' = [pc EXCEPT ![s] = "idle"]
                  /\ ret' = [ret EXCEPT ![s] = "ok"]
                  /\ OnSubmitSettled(s, TRUE)
             ELSE /\ pc' = [pc EXCEPT ![s] = "updateDoc"]
                  /\ ret' = ret
                  /\ UNCHANGED <<toast, hasReviewed, submitting>>
  /\ UNCHANGED <<pageVars, dbOk, storeVars, mounted, user, productId, checkVars, sub, viewVars, fn, arg, newId>>

\* getProductReviews: getDocs rejects; every catch on the way up rethrows
GetDocsFail(s) ==
  /\ pc[s] = "getDocs"
  /\ pc' = [pc EXCEPT ![s] = "idle"]
  /\ ret' = [ret EXCEPT ![s] = StoreError]
  /\ OnSubmitSettled(s, FALSE)
  /\ newId' = [newId EXCEPT ![s] = 0]
  /\ snap' = [snap EXCEPT ![s] = <<>>]
  /\ UNCHANGED <<pageVars, dbOk, storeVars, mounted, user, productId, checkVars, sub, viewVars, fn, arg>>

\* an average cut to its first decimal instead of rounded
AverageRatingTruncating(docs) == ToFixed1Truncating(SumSeq(RatingsOf(docs)), Len(docs))

\* the sum of the ratings, not divided by their number
AverageRatingUndivided(docs) == SumSeq(RatingsOf(docs))

\* the value updateProductRating writes: Number(averageRating.toFixed(1))
AverageRating(docs) == ToFixed1(SumSeq(RatingsOf(docs)), Len(docs))

\* updateProductRating: updateDoc resolves (the product document exists);
\* updateProductRating returns, and createReview returns reviewDoc.id
UpdateDocOk(s) ==
  /\ pc[s] = "updateDoc"
  /\ IsDoc(products[arg[s].productId])
  /\ products' = SetRating(products, arg[s].productId, AverageRating(snap[s]))
  /\ pc' = [pc EXCEPT ![s] = "idle"]
  /\ ret' = [ret EXCEPT ![s] = "ok"]
  /\ snap' = [snap EXCEPT ![s] = <<>>]
  /\ OnSubmitSettled(s, TRUE)
  /\ UNCHANGED <<pageVars, dbOk, reviews, mounted, user, productId, checkVars, sub, viewVars, fn, arg, newId>>

\* a catch that logs the rejection of updateDoc and returns normally
UpdateDocFailSwallowed(s) ==
  /\ pc[s] = "updateDoc"
  /\ pc' = [pc EXCEPT ![s] = "idle"]
  /\ ret' = [ret EXCEPT ![s] = "ok"]
  /\ OnSubmitSettled(s, TRUE)
  /\ newId' = newId
  /\ snap' = [snap EXCEPT ![s] = <<>>]
  /\ UNCHANGED <<pageVars, dbOk, storeVars, mounted, user, productId, checkVars, sub, viewVars, fn, arg>>

\* updateProductRating: updateDoc rejects (always so when the product document
\* does not exist); the catches rethrow
UpdateDocFail(s) ==
  /\ pc[s] = "updateDoc"
  /\ pc' = [pc EXCEPT ![s] = "idle"]
  /\ ret' = [ret EXCEPT ![s] = StoreError]
  /\ OnSubmitSettled(s, FALSE)
  /\ newId' = [newId EXCEPT ![s] = 0]
  /\ snap' = [snap EXCEPT ![s] = <<>>]
  /\ UNCHANGED <<pageVars, dbOk, storeVars, mounted, user, productId, checkVars, sub, viewVars, fn, arg>>

\* a caller invokes hasUserReviewed(p, u)
InvokeCheck(s, p, u) ==
  /\ checkArg' = [checkArg EXCEPT ![s] = <<p, u>>]
  /\ IF CanStart("hasUserReviewed")
       THEN /\ checkPc' = [checkPc EXCEPT ![s] = "pending"]
            /\ checkRet' = [checkRet EXCEPT ![s] = "pending"]
       ELSE /\ checkPc' = [checkPc EXCEPT ![s] = "idle"]
            /\ checkRet' = [checkRet EXCEPT ![s] = ConfigError]

\* hasUserReviewed: getDocs resolves; checkUserReview stores the answer
CheckOk(s) ==
  /\ checkPc[s] = "pending"
  /\ LET reviewed == HasUserReviewed(reviews, checkArg[s][1], checkArg[s][2])
     IN /\ checkRet' = [checkRet EXCEPT ![s] = IF reviewed THEN "true" ELSE "false"]
        /\ hasReviewed' = IF s \in mounted
                            THEN [hasReviewed EXCEPT ![s] = reviewed]
                            ELSE hasReviewed
  /\ checkPc' = [checkPc EXCEPT ![s] = "idle"]
  /\ UNCHANGED <<pageVars, dbOk, storeVars, mounted, user, productId, submitting, toast, checkArg,
                 sub, viewVars, callVars>>

\* hasUserReviewed: getDocs rejects; checkUserReview does not catch it
CheckFail(s) ==
  /\ checkPc[s] = "pending"
  /\ checkPc' = [checkPc EXCEPT ![s] = "idle"]
  /\ checkRet' = [checkRet EXCEPT ![s] = StoreError]
  /\ UNCHANGED <<pageVars, dbOk, storeVars, compVars, checkArg, sub, viewVars, callVars>>

\* ---- the product module (src/lib/products.ts) and the product forms ----------
\* addDoc(collection(db, 'products'), {...data, createdAt: serverTimestamp()})
AddProductDoc(prods, p, data, now) ==
  [prods EXCEPT ![p] = [exists |-> TRUE, used |-> TRUE, rating |-> data.rating,
                        createdBy |-> data.createdBy, createdAt |-> now]]

\* updateDoc(productRef, data): the fields of data replace those of the document
UpdateProductDoc(prods, p, data) ==
  [prods EXCEPT ![p] = [f \in DOMAIN @ |-> IF f \in DOMAIN data THEN data[f] ELSE @[f]]]

\* NewProductContent.onSubmit: createProduct({...data, imageUrl, createdBy: user.uid}),
\* data.rating being the value of the form's rating field.  The store picks an
\* identifier it never used.
CreateProduct(p, u, r) ==
  /\ dbOk
  /\ products[p] = NoDoc
  /\ products' = AddProductDoc(products, p, [rating |-> r, createdBy |-> u],
                               ServerTimestamp(reviews))
  /\ UNCHANGED <<pageVars, dbOk, reviews, compVars, checkVars, sub, viewVars, callVars>>

\* EditProductContent.onSubmit: updateProduct(productId, {...data, imageUrl,
\* createdBy: user.uid}); loadProduct lets only the creator reach the form
UpdateProduct(p, u, r) ==
  /\ dbOk
  /\ IsDoc(products[p])
  /\ products[p].createdBy = u
  /\ products' = UpdateProductDoc(products, p, [rating |-> r, createdBy |-> u])
  /\ UNCHANGED <<pageVars, dbOk, reviews, compVars, checkVars, sub, viewVars, callVars>>

\* a caller of the exported function: updateProduct(p, data), data being any
\* Partial<ProductInput>; ProductInput has rating and createdBy, not id or createdAt
UpdateInputs == {[rating |-> r] : r \in FormRatings} \cup {[createdBy |-> u] : u \in Users}

ApiUpdateProduct(p, data) ==
  /\ dbOk
  /\ IsDoc(products[p])
  /\ products' = UpdateProductDoc(products, p, data)
  /\ UNCHANGED <<pageVars, dbOk, reviews, compVars, checkVars, sub, viewVars, callVars>>

\* a deletion that takes the reviews of the product with it
DeleteProductCascading(p, u) ==
  /\ dbOk
  /\ IsDoc(products[p])
  /\ products[p].createdBy = u
  /\ products' = [products EXCEPT ![p] = Deleted]
  /\ reviews' = SelectSeq(reviews, LAMBDA d : d.productId # p)
  /\ UNCHANGED <<pageVars, dbOk, compVars, checkVars, sub, viewVars, callVars>>

\* ProductsContent: deleteProduct(productId) on one of the user's own products
DeleteProduct(p, u) ==
  /\ dbOk
  /\ IsDoc(products[p])
  /\ products[p].createdBy = u
  /\ products' = [products EXCEPT ![p] = Deleted]
  /\ UNCHANGED <<pageVars, dbOk, reviews, compVars, checkVars, sub, viewVars, callVars>>

\* ---- the ProductReviews component (src/components/ProductReviews.tsx) --------
\* first render and its two effects: checkUserReview() when a user is signed in,
\* then subscribeToProductReviews, whose throw takes the component down
Mount(s, u, p) ==
  /\ s \notin mounted
  /\ sub[s] = "none"
  /\ user' = [user EXCEPT ![s] = u]
  /\ productId' = [productId EXCEPT ![s] = p]
  /\ IF u # NoUser THEN InvokeCheck(s, p, u) ELSE UNCHANGED checkVars
  /\ IF CanStart("subscribeToProductReviews")
       THEN /\ sub' = [sub EXCEPT ![s] = "active"]
            /\ mounted' = mounted \cup {s}
       ELSE /\ sub' = [sub EXCEPT ![s] = "threw"]
            /\ mounted' = mounted
  /\ subArg' = [subArg EXCEPT ![s] = [productId |-> p, sortBy |-> DefaultSortBy]]
  /\ handles' = [handles EXCEPT ![s] = IF CanStart("subscribeToProductReviews")
                                          THEN Append(@, 0) ELSE @]
  /\ UNCHANGED <<stale, authVars, dbOk, storeVars, hasReviewed, submitting, toast, callVars,
                 feed, stats>>

\* onSubmit without its hasReviewed test
AlreadyReviewedIgnored(s) == FALSE

\* if (hasReviewed) { toast.error(...); return; }
AlreadyReviewed(s) == hasReviewed[s]

\* onSubmit(data) up to its await: the two early returns, else setSubmitting(true)
\* and the createReview call.  The submit button is disabled while submitting.
OnSubmit(s, r) ==
  /\ s \in mounted
  /\ ~submitting[s]
  /\ pc[s] = "idle"
  /\ IF user[s] = NoUser
       THEN /\ toast' = [toast EXCEPT ![s] = "login"]
            /\ UNCHANGED <<submitting, callVars>>
       ELSE IF AlreadyReviewed(s)
         THEN /\ toast' = [toast EXCEPT ![s] = "already"]
              /\ UNCHANGED <<submitting, callVars>>
         ELSE /\ Inserting < MaxReviews
              /\ Invoke(s, "createReview",
                        [productId |-> productId[s], authorId |-> user[s], rating |-> r,
                         comment |-> Comment])
              /\ IF CanStart("createReview")
                   THEN /\ submitting' = [submitting EXCEPT ![s] = TRUE]
                        /\ toast' = toast
                   ELSE /\ submitting' = submitting
                        /\ toast' = [toast EXCEPT ![s] = "error"]
  /\ UNCHANGED <<pageVars, dbOk, storeVars, mounted, user, productId, hasReviewed, checkVars, sub, viewVars>>

\* a component that never runs the cleanup of its subscription effect
InvokeUnsubscribeNever(h) == h

\* the cleanup of the subscription effect, () => unsubscribe(), called on the
\* handle the effect's last run received
InvokeUnsubscribe(h) == IF h = <<>> THEN h ELSE [h EXCEPT ![Len(h)] = @ + 1]

\* handles of instance s that were never invoked: its listeners still attached
ActiveHandles(s) == {i \in 1..Len(handles[s]) : handles[s][i] = 0}

\* the subscription effect runs again for (p, sortBy): React calls the cleanup of
\* the previous run, then the effect subscribes anew
RerunSubscribeEffect(s, p, sortBy) ==
  /\ handles' = [handles EXCEPT ![s] = Append(InvokeUnsubscribe(@), 0)]
  /\ sub' = [sub EXCEPT ![s] = "active"]
  /\ subArg' = [subArg EXCEPT ![s] = [productId |-> p, sortBy |-> sortBy]]
  /\ feed' = [feed EXCEPT ![s] = <<>>]

\* setSortBy(v) from the order selector: only the subscription effect depends on sortBy
SetSortBy(s, v) ==
  /\ s \in mounted
  /\ v # subArg[s].sortBy
  /\ RerunSubscribeEffect(s, productId[s], v)
  /\ UNCHANGED <<stale, authVars, dbOk, storeVars, compVars, checkVars, callVars, stats>>

\* the parent renders the instance with another productId: both effects run again.
\* checkUserReview has no cleanup, so a call of the previous render that is still
\* in flight stays in flight and will call setHasReviewed with its answer.
SetProductId(s, p) ==
  /\ s \in mounted
  /\ p # productId[s]
  /\ productId' = [productId EXCEPT ![s] = p]
  /\ IF user[s] # NoUser
       THEN /\ InvokeCheck(s, p, user[s])
            /\ stale' = [stale EXCEPT ![s] = IF checkPc[s] = "pending"
                                               THEN @ \cup {checkArg[s]} ELSE @]
       ELSE UNCHANGED <<checkVars, stale>>
  /\ RerunSubscribeEffect(s, p, subArg[s].sortBy)
  /\ UNCHANGED <<authVars, dbOk, storeVars, mounted, user, hasReviewed, submitting, toast,
                 callVars, stats>>

\* a hasUserReviewed call of an earlier render resolves: setHasReviewed(reviewed)
StaleCheckOk(s, a) ==
  /\ a \in stale[s]
  /\ stale' = [stale EXCEPT ![s] = @ \ {a}]
  /\ hasReviewed' = [hasReviewed EXCEPT ![s] = HasUserReviewed(reviews, a[1], a[2])]
  /\ UNCHANGED <<handles, authVars, dbOk, storeVars, mounted, user, productId, submitting,
                 toast, checkVars, sub, viewVars, callVars>>

\* a hasUserReviewed call of an earlier render rejects: nothing catches it
StaleCheckFail(s, a) ==
  /\ a \in stale[s]
  /\ stale' = [stale EXCEPT ![s] = @ \ {a}]
  /\ UNCHANGED <<handles, authVars, dbOk, storeVars, compVars, checkVars, sub, viewVars,
                 callVars>>

\* the instance unmounts: React calls the cleanup of the subscription effect and
\* drops the state; what its calls in flight answer later changes nothing
Unmount(s) ==
  /\ s \in mounted
  /\ mounted' = mounted \ {s}
  /\ handles' = [handles EXCEPT ![s] = InvokeUnsubscribe(@)]
  /\ sub' = [sub EXCEPT ![s] = "none"]
  /\ stale' = [stale EXCEPT ![s] = {}]
  /\ checkPc' = [checkPc EXCEPT ![s] = "idle"]
  /\ hasReviewed' = [hasReviewed EXCEPT ![s] = FALSE]
  /\ submitting' = [submitting EXCEPT ![s] = FALSE]
  /\ toast' = [toast EXCEPT ![s] = "none"]
  /\ UNCHANGED <<authVars, dbOk, storeVars, user, productId, checkRet, checkArg, viewVars,
                 callVars>>

\* ---- AuthProvider and ProtectedRoute -------------------------------------------
\* firebase.ts sets auth and db in the same branch: firebaseAuth is defined
\* exactly when db is.
\* AuthProvider's effect: without firebaseAuth setLoading(false), else it attaches
\* the onAuthStateChanged listener
AuthProviderMount ==
  /\ authPc = "unmounted"
  /\ IF dbOk
       THEN /\ authPc' = "listening"
            /\ authLoading' = authLoading
       ELSE /\ authPc' = "off"
            /\ authLoading' = FALSE
  /\ UNCHANGED <<handles, stale, authUser, shown, seen, pushed, dbOk, storeVars, compVars,
                 checkVars, sub, viewVars, callVars>>

\* the listener fires, with the current state at first and then on every sign-in
\* and sign-out: setUser(user); setLoading(false), rendered as one update
OnAuthStateChanged(u) ==
  /\ authPc = "listening"
  /\ authLoading \/ u # authUser
  /\ authUser' = u
  /\ authLoading' = FALSE
  /\ UNCHANGED <<handles, stale, authPc, shown, seen, pushed, dbOk, storeVars, compVars,
                 checkVars, sub, viewVars, callVars>>

\* what ProtectedRoute returns for the context values it reads
ProtectedRouteOutput(u, l) ==
  IF l THEN "spinner" ELSE IF u = NoUser THEN "null" ELSE "children"

\* a redirect that does not wait for the end of loading
ShouldRedirectWhileLoading(u, l) == u = NoUser

\* the test of ProtectedRoute's effect: if (!loading && !user)
ShouldRedirect(u, l) == ~l /\ u = NoUser

\* ProtectedRoute renders, at first or because the context changed, and its
\* effect, whose dependencies changed with it, runs
ProtectedRouteRender ==
  /\ shown = "unrendered" \/ seen # <<authUser, authLoading>>
  /\ shown' = ProtectedRouteOutput(authUser, authLoading)
  /\ seen' = <<authUser, authLoading>>
  /\ pushed' = IF ShouldRedirect(authUser, authLoading)
                 THEN Append(pushed, "/login") ELSE pushed
  /\ UNCHANGED <<handles, stale, authPc, authUser, authLoading, dbOk, storeVars, compVars,
                 checkVars, sub, viewVars, callVars>>

\* ---- callers of the exported functions other than the component --------------
CallerIdle(s) == s \notin mounted /\ pc[s] = "idle" /\ checkPc[s] = "idle"

ApiCreateReview(s, p, u, r) ==
  /\ CallerIdle(s)
  /\ Inserting < MaxReviews
  /\ Invoke(s, "createReview",
            [productId |-> p, authorId |-> u, rating |-> r, comment |-> Comment])
  /\ UNCHANGED <<pageVars, dbOk, storeVars, compVars, checkVars, sub, viewVars>>

ApiUpdateProductRating(s, p) ==
  /\ CallerIdle(s)
  /\ Invoke(s, "updateProductRating", [productId |-> p, authorId |-> NoUser, rating |-> 0])
  /\ UNCHANGED <<pageVars, dbOk, storeVars, compVars, checkVars, sub, viewVars>>

ApiGetProductReviews(s, p) ==
  /\ CallerIdle(s)
  /\ Invoke(s, "getProductReviews", [productId |-> p, authorId |-> NoUser, rating |-> 0])
  /\ UNCHANGED <<pageVars, dbOk, storeVars, compVars, checkVars, sub, viewVars>>

\* getProductReviews(p, sortBy)
ApiGetProductReviewsBy(s, p, sortBy) ==
  /\ CallerIdle(s)
  /\ Invoke(s, "getProductReviews",
            [productId |-> p, authorId |-> NoUser, rating |-> 0, sortBy |-> sortBy])
  /\ UNCHANGED <<pageVars, dbOk, storeVars, compVars, checkVars, sub, viewVars>>

ApiHasUserReviewed(s, p, u) ==
  /\ CallerIdle(s)
  /\ InvokeCheck(s, p, u)
  /\ UNCHANGED <<pageVars, dbOk, storeVars, compVars, sub, viewVars, callVars>>

ApiSubscribeBy(s, p, sortBy) ==
  /\ CallerIdle(s)
  /\ sub[s] # "active"
  /\ sub' = [sub EXCEPT ![s] = IF CanStart("subscribeToProductReviews")
                                  THEN "active" ELSE "threw"]
  /\ subArg' = [subArg EXCEPT ![s] = [productId |-> p, sortBy |-> sortBy]]
  /\ feed' = [feed EXCEPT ![s] = <<>>]
  /\ UNCHANGED <<pageVars, dbOk, storeVars, compVars, checkVars, callVars, stats>>

\* subscribeToProductReviews(p, undefined, callback): sortBy takes its default
ApiSubscribe(s, p) == ApiSubscribeBy(s, p, DefaultSortBy)

\* a listener that fires for the initial load only
DeliverInitialOnly(s) ==
  /\ sub[s] = "active"
  /\ feed[s] = <<>>
  /\ \E docs \in QueryResults(reviews, subArg[s].productId, subArg[s].sortBy) :
       feed' = [feed EXCEPT ![s] = Append(feed[s], docs)]
  /\ UNCHANGED <<pageVars, dbOk, storeVars, compVars, checkVars, callVars, sub, stats, subArg>>

\* the onSnapshot listener fires: on the initial load, and whenever the documents
\* of the query are not those it passed last.  The callback gets the whole
\* current result of the query.
Deliver(s) ==
  /\ sub[s] = "active"
  /\ \E docs \in QueryResults(reviews, subArg[s].productId, subArg[s].sortBy) :
       /\ feed[s] # <<>> =>
            Matching(reviews, subArg[s].productId)
              # {feed[s][Len(feed[s])][i] : i \in 1..Len(feed[s][Len(feed[s])])}
       /\ feed' = [feed EXCEPT ![s] = Append(feed[s], docs)]
  /\ UNCHANGED <<pageVars, dbOk, storeVars, compVars, checkVars, callVars, sub, stats, subArg>>

\* the Unsubscribe function subscribeToProductReviews returned is called
ApiUnsubscribe(s) ==
  /\ sub[s] = "active"
  /\ sub' = [sub EXCEPT ![s] = "none"]
  /\ UNCHANGED <<pageVars, dbOk, storeVars, compVars, checkVars, callVars, viewVars>>

\* the listener ends with an error of the store; onSnapshot was given no error
\* callback, so nothing is called
ListenerFail(s) ==
  /\ sub[s] = "active"
  /\ sub' = [sub EXCEPT ![s] = "failed"]
  /\ UNCHANGED <<pageVars, dbOk, storeVars, compVars, checkVars, callVars, viewVars>>

\* ---- calculateReviewStats ------------------------------------------------------
\* a rounding of x.5 down
MathRoundHalfDown(r) == (r + 4) \div 10

\* a rounding that clamps its result into 1..5
MathRoundClamped(r) ==
  IF (r + 5) \div 10 < 1 THEN 1 ELSE IF (r + 5) \div 10 > 5 THEN 5 ELSE (r + 5) \div 10

\* Math.round(review.rating) for a rating of r tenths, r >= 0: floor(x + 0.5)
MathRound(r) == (r + 5) \div 10

\* a test that leaves out the two ends
InRangeExclusive(rating) == rating > 1 /\ rating < 5

\* if (rating >= 1 && rating <= 5)
InRange(rating) == rating >= 1 /\ rating <= 5

\* distribution after the forEach: bucket b counts the ratings whose Math.round is b
Distribution(rs) ==
  [b \in 1..5 |->
     Cardinality({i \in 1..Len(rs) : InRange(MathRound(rs[i])) /\ MathRound(rs[i]) = b})]

\* statistics whose average is the rating of the first review
CalculateReviewStatsOfFirst(docs) ==
  IF Len(docs) = 0
    THEN [average |-> 0, total |-> 0, distribution |-> [b \in 1..5 |-> 0]]
    ELSE [average |-> docs[1].rating,
          total |-> Len(docs),
          distribution |-> Distribution(RatingsOf(docs))]

\* calculateReviewStats(reviews)
CalculateReviewStats(docs) ==
  IF Len(docs) = 0
    THEN [average |-> 0, total |-> 0, distribution |-> [b \in 1..5 |-> 0]]
    ELSE [average |-> ToFixed1(SumSeq(RatingsOf(docs)), Len(docs)),
          total |-> Len(docs),
          distribution |-> Distribution(RatingsOf(docs))]

\* const stats = calculateReviewStats(reviews) on the array the caller got from
\* getProductReviews (the empty array before any call)
ApiCalculateReviewStats(s) ==
  /\ CallerIdle(s)
  /\ stats' = [stats EXCEPT ![s] = CalculateReviewStats(snap[s])]
  /\ UNCHANGED <<pageVars, dbOk, storeVars, compVars, checkVars, callVars, sub, feed, subArg>>

\* ---- specifications ---------------------------------------------------------
StoreSteps ==
  \E s \in Sessions :
    \/ AddDocOk(s)
    \/ AddDocFail(s)
    \/ GetDocsOk(s)
    \/ GetDocsFail(s)
    \/ UpdateDocOk(s)
    \/ UpdateDocFail(s)
    \/ CheckOk(s)
    \/ CheckFail(s)

\* the application: product forms and ProductReviews instances
Next ==
  \/ \E p \in Catalog, u \in Owners, r \in FormRatings : CreateProduct(p, u, r)
  \/ \E p \in Catalog, u \in Owners, r \in FormRatings : UpdateProduct(p, u, r)
  \/ \E p \in Catalog, u \in Owners : DeleteProduct(p, u)
  \/ \E s \in Sessions, u \in Users \cup {NoUser}, p \in Catalog : Mount(s, u, p)
  \/ \E s \in Sessions, r \in FormStars : OnSubmit(s, r)
  \/ StoreSteps

Spec == Init /\ [][Next]_vars

\* the review module called directly
NextApi ==
  \/ \E p \in Catalog, u \in Owners : CreateProduct(p, u, 0)
  \/ \E s \in ApiCallers, p \in ProductIds, u \in Users, r \in ReviewRatings :
       ApiCreateReview(s, p, u, r)
  \/ \E s \in ApiCallers, p \in ProductIds : ApiUpdateProductRating(s, p)
  \/ \E s \in ApiCallers, p \in ProductIds : ApiGetProductReviews(s, p)
  \/ \E s \in ApiCallers, p \in ProductIds, u \in Users : ApiHasUserReviewed(s, p, u)
  \/ \E s \in ApiCallers, p \in Catalog : ApiSubscribe(s, p)
  \/ StoreSteps

SpecApi == Init /\ [][NextApi]_vars

\* createReview called at the same time by two different users for one product
\* that exists, every store request succeeding
RaceAuthor(s) == IF s = "s1" THEN "u1" ELSE "u2"

InitRace ==
  /\ dbOk = TRUE
  /\ products = [p \in ProductIds |->
                   IF p = "p1"
                     THEN [exists |-> TRUE, used |-> TRUE, rating |-> 0,
                           createdBy |-> "u1", createdAt |-> 1]
                     ELSE NoDoc]
  /\ reviews = <<>>
  /\ mounted = {}
  /\ user = [s \in Sessions |-> NoUser]
  /\ productId = [s \in Sessions |-> "p1"]
  /\ hasReviewed = [s \in Sessions |-> FALSE]
  /\ submitting = [s \in Sessions |-> FALSE]
  /\ toast = [s \in Sessions |-> "none"]
  /\ checkPc = [s \in Sessions |-> "idle"]
  /\ checkRet = [s \in Sessions |-> "none"]
  /\ checkArg = [s \in Sessions |-> <<"p1", NoUser>>]
  /\ sub = [s \in Sessions |-> "none"]
  /\ pc = [s \in Sessions |-> "idle"]
  /\ fn = [s \in Sessions |-> "none"]
  /\ arg = [s \in Sessions |-> NoArg]
  /\ newId = [s \in Sessions |-> 0]
  /\ snap = [s \in Sessions |-> <<>>]
  /\ ret = [s \in Sessions |-> "none"]
  /\ feed = [s \in Sessions |-> <<>>]
  /\ stats = [s \in Sessions |-> NoStats]
  /\ subArg = [s \in Sessions |-> NoSubArg]
  /\ handles = [s \in Sessions |-> <<>>]
  /\ stale = [s \in Sessions |-> {}]
  /\ authPc = "unmounted"
  /\ authUser = NoUser
  /\ authLoading = TRUE
  /\ shown = "unrendered"
  /\ seen = <<NoUser, TRUE>>
  /\ pushed = <<>>

NextRace ==
  \/ \E s \in Sessions, r \in ReviewRatings : ApiCreateReview(s, "p1", RaceAuthor(s), r)
  \/ \E s \in Sessions : AddDocOk(s)
  \/ \E s \in Sessions : GetDocsOk(s)
  \/ \E s \in Sessions : UpdateDocOk(s)

SpecRace == InitRace /\ [][NextRace]_vars

\* ---- a client that stops in the middle of createReview ------------------------
\* the client running createReview stops (tab closed, process killed) after its
\* addDoc was served and before its updateDoc is: the call never settles and the
\* requests it had left are never issued
Crash(s) ==
  /\ fn[s] = "createReview"
  /\ pc[s] \in {"getDocs", "updateDoc"}
  /\ pc' = [pc EXCEPT ![s] = "idle"]
  /\ ret' = [ret EXCEPT ![s] = "crashed"]
  /\ snap' = [snap EXCEPT ![s] = <<>>]
  /\ UNCHANGED <<pageVars, dbOk, storeVars, compVars, checkVars, sub, viewVars, fn, arg, newId>>

\* createReview calls on product p1 made one after the other, each either running
\* to its return or stopping between its insert and its rating write
NextCrash ==
  \/ \E s \in Sessions, r \in ReviewRatings :
       /\ \A t \in Sessions : pc[t] = "idle"
       /\ ApiCreateReview(s, "p1", RaceAuthor(s), r)
  \/ \E s \in Sessions : AddDocOk(s)
  \/ \E s \in Sessions : GetDocsOk(s)
  \/ \E s \in Sessions : UpdateDocOk(s)
  \/ \E s \in Sessions : Crash(s)

SpecCrash == InitRace /\ [][NextCrash]_vars

\* ---- a listener and the writers of the collection ------------------------------
\* one caller subscribes, to any product and with either order, and may
\* unsubscribe and subscribe again; the other sessions create reviews meanwhile
NextSubscribe ==
  \/ \E s \in ApiCallers, p \in ProductIds, sortBy \in SortBys : ApiSubscribeBy(s, p, sortBy)
  \/ \E s \in ApiCallers : Deliver(s)
  \/ \E s \in ApiCallers : ApiUnsubscribe(s)
  \/ \E s \in ApiCallers : ListenerFail(s)
  \/ \E s \in Sessions \ ApiCallers, p \in ProductIds, r \in ReviewRatings :
       ApiCreateReview(s, p, RaceAuthor(s), r)
  \/ \E s \in Sessions : AddDocOk(s)
  \/ \E s \in Sessions : AddDocFail(s)
  \/ \E s \in Sessions : GetDocsOk(s)
  \/ \E s \in Sessions : GetDocsFail(s)
  \/ \E s \in Sessions : UpdateDocOk(s)
  \/ \E s \in Sessions : UpdateDocFail(s)

\* the store keeps notifying a listener that is attached: a snapshot that is due
\* is delivered
SpecSubscribe ==
  InitRace /\ [][NextSubscribe]_vars /\ \A s \in ApiCallers : WF_vars(Deliver(s))

\* ---- one browser: the auth context, a protected page, a ProductReviews instance --
\* the store is configured or not; it holds two products and the review of user
\* u1 on product p1
InitPage ==
  /\ dbOk \in BOOLEAN
  /\ products = [p \in ProductIds |->
                   [exists |-> TRUE, used |-> TRUE, rating |-> IF p = "p1" THEN 40 ELSE 0,
                    createdBy |-> "u1", createdAt |-> 1]]
  /\ reviews = <<[id |-> 1, productId |-> "p1", authorId |-> "u1", rating |-> 40,
                  comment |-> Comment, createdAt |-> 2]>>
  /\ mounted = {}
  /\ user = [s \in Sessions |-> NoUser]
  /\ productId = [s \in Sessions |-> "p1"]
  /\ hasReviewed = [s \in Sessions |-> FALSE]
  /\ submitting = [s \in Sessions |-> FALSE]
  /\ toast = [s \in Sessions |-> "none"]
  /\ checkPc = [s \in Sessions |-> "idle"]
  /\ checkRet = [s \in Sessions |-> "none"]
  /\ checkArg = [s \in Sessions |-> <<"p1", NoUser>>]
  /\ sub = [s \in Sessions |-> "none"]
  /\ pc = [s \in Sessions |-> "idle"]
  /\ fn = [s \in Sessions |-> "none"]
  /\ arg = [s \in Sessions |-> NoArg]
  /\ newId = [s \in Sessions |-> 0]
  /\ snap = [s \in Sessions |-> <<>>]
  /\ ret = [s \in Sessions |-> "none"]
  /\ feed = [s \in Sessions |-> <<>>]
  /\ stats = [s \in Sessions |-> NoStats]
  /\ subArg = [s \in Sessions |-> NoSubArg]
  /\ handles = [s \in Sessions |-> <<>>]
  /\ stale = [s \in Sessions |-> {}]
  /\ authPc = "unmounted"
  /\ authUser = NoUser
  /\ authLoading = TRUE
  /\ shown = "unrendered"
  /\ seen = <<NoUser, TRUE>>
  /\ pushed = <<>>

\* the instance mounts, gets other props or another order, and unmounts, up to
\* MaxEffects runs of its subscription effect; the auth state changes until
\* ProtectedRoute has redirected MaxPushes times
NextPage ==
  \/ \E s \in ApiCallers, u \in Users \cup {NoUser}, p \in ProductIds :
       Len(handles[s]) < MaxEffects /\ Mount(s, u, p)
  \/ \E s \in ApiCallers, v \in SortBys : Len(handles[s]) < MaxEffects /\ SetSortBy(s, v)
  \/ \E s \in ApiCallers, p \in ProductIds :
       Len(handles[s]) < MaxEffects /\ SetProductId(s, p)
  \/ \E s \in ApiCallers : Unmount(s)
  \/ \E s \in ApiCallers : CheckOk(s)
  \/ \E s \in ApiCallers : CheckFail(s)
  \/ \E s \in ApiCallers, a \in ProductIds \X Users : StaleCheckOk(s, a)
  \/ \E s \in ApiCallers, a \in ProductIds \X Users : StaleCheckFail(s, a)
  \/ \E s \in ApiCallers : Deliver(s)
  \/ \E s \in ApiCallers : ListenerFail(s)
  \/ AuthProviderMount
  \/ \E u \in Users \cup {NoUser} : Len(pushed) < MaxPushes /\ OnAuthStateChanged(u)
  \/ ProtectedRouteRender

SpecPage == InitPage /\ [][NextPage]_vars

\* ---- the product functions next to createReview --------------------------------
\* users create, edit and delete their products through the forms, a caller
\* invokes updateProduct directly, and one session creates reviews
NextProducts ==
  \/ \E p \in ProductIds, u \in Users, r \in FormRatings : CreateProduct(p, u, r)
  \/ \E p \in ProductIds, u \in Users, r \in FormRatings : UpdateProduct(p, u, r)
  \/ \E p \in ProductIds, data \in UpdateInputs : ApiUpdateProduct(p, data)
  \/ \E p \in ProductIds, u \in Users : DeleteProduct(p, u)
  \/ \E s \in ApiCallers, p \in Catalog, r \in ReviewRatings :
       ApiCreateReview(s, p, RaceAuthor(s), r)
  \/ \E s \in ApiCallers : AddDocOk(s)
  \/ \E s \in ApiCallers : AddDocFail(s)
  \/ \E s \in ApiCallers : GetDocsOk(s)
  \/ \E s \in ApiCallers : GetDocsFail(s)
  \/ \E s \in ApiCallers : UpdateDocOk(s)
  \/ \E s \in ApiCallers : UpdateDocFail(s)

SpecProducts == Init /\ [][NextProducts]_vars

\* ---- the stored rating next to the statistics of the same list -------------------
\* every client-side variable as it is before anything was mounted or called
FreshClients ==
  /\ mounted = {}
  /\ user = [s \in Sessions |-> NoUser]
  /\ productId = [s \in Sessions |-> "p1"]
  /\ hasReviewed = [s \in Sessions |-> FALSE]
  /\ submitting = [s \in Sessions |-> FALSE]
  /\ toast = [s \in Sessions |-> "none"]
  /\ checkPc = [s \in Sessions |-> "idle"]
  /\ checkRet = [s \in Sessions |-> "none"]
  /\ checkArg = [s \in Sessions |-> <<"p1", NoUser>>]
  /\ sub = [s \in Sessions |-> "none"]
  /\ pc = [s \in Sessions |-> "idle"]
  /\ fn = [s \in Sessions |-> "none"]
  /\ arg = [s \in Sessions |-> NoArg]
  /\ newId = [s \in Sessions |-> 0]
  /\ snap = [s \in Sessions |-> <<>>]
  /\ ret = [s \in Sessions |-> "none"]
  /\ feed = [s \in Sessions |-> <<>>]
  /\ stats = [s \in Sessions |-> NoStats]
  /\ subArg = [s \in Sessions |-> NoSubArg]
  /\ handles = [s \in Sessions |-> <<>>]
  /\ stale = [s \in Sessions |-> {}]
  /\ authPc = "unmounted"
  /\ authUser = NoUser
  /\ authLoading = TRUE
  /\ shown = "unrendered"
  /\ seen = <<NoUser, TRUE>>
  /\ pushed = <<>>

\* a review list of n documents, the i-th of product f[i][1] and rating f[i][2]
ReviewList(n, f) ==
  [i \in 1..n |-> [id |-> i, productId |-> f[i][1], authorId |-> ToString(i),
                   rating |-> f[i][2], comment |-> Comment, createdAt |-> i]]

\* two products of user u1; the collection holds either up to MaxLen reviews,
\* each of any product and of one to five stars, or up to MaxCount reviews of
\* product p1, the first k of four stars and the others of five
InitAgree ==
  /\ dbOk = TRUE
  /\ products = [p \in ProductIds |->
                   [exists |-> TRUE, used |-> TRUE, rating |-> 0, createdBy |-> "u1",
                    createdAt |-> 1]]
  /\ \/ \E n \in 0..MaxLen : \E f \in [1..n -> ProductIds \X AgreeRatings] :
          reviews = ReviewList(n, f)
     \/ \E n \in (MaxLen + 1)..MaxCount : \E k \in 0..n :
          reviews = ReviewList(n, [i \in 1..n |-> <<"p1", IF i <= k THEN 40 ELSE 50>>])
  /\ FreshClients

\* a caller recomputes the rating of a product, reads its reviews and computes
\* their statistics; the owner saves the edit form of product p1
NextAgree ==
  \/ \E s \in ApiCallers, p \in ProductIds : ApiUpdateProductRating(s, p)
  \/ \E s \in ApiCallers, p \in ProductIds : ApiGetProductReviews(s, p)
  \/ \E s \in ApiCallers : ApiCalculateReviewStats(s)
  \/ \E s \in ApiCallers : GetDocsOk(s)
  \/ \E s \in ApiCallers : GetDocsFail(s)
  \/ \E s \in ApiCallers : UpdateDocOk(s)
  \/ \E s \in ApiCallers : UpdateDocFail(s)
  \/ \E p \in Catalog, u \in Owners, r \in FormRatings : UpdateProduct(p, u, r)

SpecAgree == InitAgree /\ [][NextAgree]_vars

\* ---- statistics of ratings that the forms would not let through -----------------
\* createReview validates nothing, so the collection may hold ratings outside
\* one to five stars: up to MaxLen reviews of product p1, each rated 0, 3.0,
\* 4.5, 5.5 or 6.0
InitWide ==
  /\ dbOk = TRUE
  /\ products = [p \in ProductIds |->
                   IF p = "p1"
                     THEN [exists |-> TRUE, used |-> TRUE, rating |-> 0,
                           createdBy |-> "u1", createdAt |-> 1]
                     ELSE NoDoc]
  /\ \E n \in 0..MaxLen : \E f \in [1..n -> {"p1"} \X WideRatings] :
       reviews = ReviewList(n, f)
  /\ FreshClients

NextWide ==
  \/ \E s \in ApiCallers : ApiGetProductReviews(s, "p1")
  \/ \E s \in ApiCallers : GetDocsOk(s)
  \/ \E s \in ApiCallers : GetDocsFail(s)
  \/ \E s \in ApiCallers : ApiCalculateReviewStats(s)

SpecWide == InitWide /\ [][NextWide]_vars

\* ---- queries and statistics over a stored list of reviews ----------------------
\* the collection holds either up to MaxLen reviews, each of any product and of
\* any rating of StatRatings, or up to MaxCount reviews of product p1, the first
\* k of four stars and the others of five
InitQuery ==
  /\ dbOk = TRUE
  /\ products = [p \in ProductIds |->
                   IF p = "p1"
                     THEN [exists |-> TRUE, used |-> TRUE, rating |-> 0,
                           createdBy |-> "u1", createdAt |-> 1]
                     ELSE NoDoc]
  /\ \/ \E n \in 0..MaxLen : \E f \in [1..n -> ProductIds \X StatRatings] :
          reviews = [i \in 1..n |->
                       [id |-> i, productId |-> f[i][1], authorId |-> ToString(i),
                        rating |-> f[i][2], comment |-> Comment,
                        createdAt |-> i]]
     \/ \E n \in (MaxLen + 1)..MaxCount : \E k \in 0..n :
          reviews = [i \in 1..n |->
                       [id |-> i, productId |-> "p1", authorId |-> ToString(i),
                        rating |-> IF i <= k THEN 40 ELSE 50, comment |-> Comment,
                        createdAt |-> i]]
  /\ mounted = {}
  /\ user = [s \in Sessions |-> NoUser]
  /\ productId = [s \in Sessions |-> "p1"]
  /\ hasReviewed = [s \in Sessions |-> FALSE]
  /\ submitting = [s \in Sessions |-> FALSE]
  /\ toast = [s \in Sessions |-> "none"]
  /\ checkPc = [s \in Sessions |-> "idle"]
  /\ checkRet = [s \in Sessions |-> "none"]
  /\ checkArg = [s \in Sessions |-> <<"p1", NoUser>>]
  /\ sub = [s \in Sessions |-> "none"]
  /\ pc = [s \in Sessions |-> "idle"]
  /\ fn = [s \in Sessions |-> "none"]
  /\ arg = [s \in Sessions |-> NoArg]
  /\ newId = [s \in Sessions |-> 0]
  /\ snap = [s \in Sessions |-> <<>>]
  /\ ret = [s \in Sessions |-> "none"]
  /\ feed = [s \in Sessions |-> <<>>]
  /\ stats = [s \in Sessions |-> NoStats]
  /\ subArg = [s \in Sessions |-> NoSubArg]
  /\ handles = [s \in Sessions |-> <<>>]
  /\ stale = [s \in Sessions |-> {}]
  /\ authPc = "unmounted"
  /\ authUser = NoUser
  /\ authLoading = TRUE
  /\ shown = "unrendered"
  /\ seen = <<NoUser, TRUE>>
  /\ pushed = <<>>

\* the query by rating is followed on the lists drawn freely
NextQuery ==
  \/ \E s \in ApiCallers, p \in ProductIds, sortBy \in SortBys :
       /\ sortBy = "rating" => Len(reviews) <= MaxLen
       /\ ApiGetProductReviewsBy(s, p, sortBy)
  \/ \E s \in Sessions : GetDocsOk(s)
  \/ \E s \in Sessions : GetDocsFail(s)
  \/ \E s \in ApiCallers : ApiCalculateReviewStats(s)

SpecQuery == InitQuery /\ [][NextQuery]_vars

\* ---- recomputation over a stored list of reviews ---------------------------
\* updateProductRating called on a product that already has n reviews, the first
\* k of four stars and the others of five, each by a reviewer of its own.
InitRecompute ==
  /\ dbOk = TRUE
  /\ products = [p \in ProductIds |->
                   IF p = "p1"
                     THEN [exists |-> TRUE, used |-> TRUE, rating |-> 0,
                           createdBy |-> "u1", createdAt |-> 1]
                     ELSE NoDoc]
  /\ \E n \in 0..MaxCount : \E k \in 0..n :
       reviews = [i \in 1..n |->
                    [id |-> i, productId |-> "p1", authorId |-> ToString(i),
                     rating |-> IF i <= k THEN 40 ELSE 50, comment |-> Comment,
                        createdAt |-> i]]
  /\ mounted = {}
  /\ user = [s \in Sessions |-> NoUser]
  /\ productId = [s \in Sessions |-> "p1"]
  /\ hasReviewed = [s \in Sessions |-> FALSE]
  /\ submitting = [s \in Sessions |-> FALSE]
  /\ toast = [s \in Sessions |-> "none"]
  /\ checkPc = [s \in Sessions |-> "idle"]
  /\ checkRet = [s \in Sessions |-> "none"]
  /\ checkArg = [s \in Sessions |-> <<"p1", NoUser>>]
  /\ sub = [s \in Sessions |-> "none"]
  /\ pc = [s \in Sessions |-> "idle"]
  /\ fn = [s \in Sessions |-> "none"]
  /\ arg = [s \in Sessions |-> NoArg]
  /\ newId = [s \in Sessions |-> 0]
  /\ snap = [s \in Sessions |-> <<>>]
  /\ ret = [s \in Sessions |-> "none"]
  /\ feed = [s \in Sessions |-> <<>>]
  /\ stats = [s \in Sessions |-> NoStats]
  /\ subArg = [s \in Sessions |-> NoSubArg]
  /\ handles = [s \in Sessions |-> <<>>]
  /\ stale = [s \in Sessions |-> {}]
  /\ authPc = "unmounted"
  /\ authUser = NoUser
  /\ authLoading = TRUE
  /\ shown = "unrendered"
  /\ seen = <<NoUser, TRUE>>
  /\ pushed = <<>>

NextRecompute ==
  \/ \E s \in ApiCallers : ApiUpdateProductRating(s, "p1")
  \/ \E s \in Sessions : GetDocsOk(s)
  \/ \E s \in Sessions : GetDocsFail(s)
  \/ \E s \in Sessions : UpdateDocOk(s)
  \/ \E s \in Sessions : UpdateDocFail(s)

SpecRecompute == InitRecompute /\ [][NextRecompute]_vars

\* ---- properties --------------------------------------------------------------
\* r is the mean of the ratings rs (both in tenths) rounded half-up to one decimal
\* place: r <= mean + 1/2 < r + 1
IsRoundedMean(r, rs) ==
  /\ Len(rs) > 0
  /\ 2 * Len(rs) * r <= 2 * SumSeq(rs) + Len(rs)
  /\ 2 * SumSeq(rs) + Len(rs) < 2 * Len(rs) * (r + 1)

\* r (in tenths) is a tenth nearest the mean of the ratings rs: it is at most half
\* a tenth away from it
IsNearestTenth(r, rs) ==
  /\ Len(rs) > 0
  /\ 2 * Len(rs) * r <= 2 * SumSeq(rs) + Len(rs)
  /\ 2 * SumSeq(rs) - Len(rs) <= 2 * Len(rs) * r

\* the ratings of the stored reviews of product p
StoredRatings(p) == RatingsOf(SelectSeq(reviews, LAMBDA d : d.productId = p))

\* the stored reviews of product p, as a set of documents
StoredDocs(p) == {reviews[i] : i \in {j \in 1..Len(reviews) : reviews[j].productId = p}}

DocsOf(docs) == {docs[i] : i \in 1..Len(docs)}

C2_RatingIsMeanOfReviews ==
  \A p \in ProductIds :
    IsDoc(products[p]) =>
      IF StoredRatings(p) = <<>>
        THEN products[p].rating = 0
        ELSE IsRoundedMean(products[p].rating, StoredRatings(p))

\* C3: no two review documents have the same productId and authorId.
C3_OneReviewPerUserAndProduct ==
  \A i, j \in 1..Len(reviews) :
    (reviews[i].productId = reviews[j].productId
       /\ reviews[i].authorId = reviews[j].authorId) => i = j

\* C4: a createReview call that rejects has inserted no review document and
\* leaves the reviews and the products as they were.
C4_FailedCreateReviewChangesNothing ==
  [][\A s \in Sessions :
       (fn[s] = "createReview" /\ ret[s] = "pending" /\ ret'[s] \in Errors)
         => newId[s] = 0 /\ reviews' = reviews /\ products' = products
    ]_vars

\* C5: once no createReview call is in flight, the rating of the product is the
\* rounded mean of all its reviews.
C5_RatingRightOnceCallsReturned ==
  ((\A s \in Sessions : pc[s] = "idle") /\ StoredRatings("p1") # <<>>)
    => IsRoundedMean(products["p1"].rating, StoredRatings("p1"))

\* C6: a hasUserReviewed(p, u) call answered after the caller's createReview for
\* (p, u) has succeeded answers true.
C6_ReviewedAfterCreate ==
  [][\A s \in Sessions :
       (/\ fn[s] = "createReview"
        /\ ret[s] = "ok"
        /\ checkPc[s] = "pending"
        /\ checkArg[s] = <<arg[s].productId, arg[s].authorId>>
        /\ checkRet'[s] \in {"true", "false"})
         => checkRet'[s] = "true"
    ]_vars

\* the caller created the only review of (p, u), so that hasUserReviewed(p, u) was
\* false before, and its next hasUserReviewed(p, u) answered true
C6_Witness ==
  \E s \in Sessions :
    /\ fn[s] = "createReview"
    /\ ret[s] = "ok"
    /\ checkArg[s] = <<arg[s].productId, arg[s].authorId>>
    /\ checkRet[s] = "true"
    /\ Cardinality({i \in 1..Len(reviews) :
                      /\ reviews[i].productId = arg[s].productId
                      /\ reviews[i].authorId = arg[s].authorId}) = 1

\* C7: createReview returns the id only in the step in which the rating write of
\* updateProductRating lands; by then the review it inserted is stored under that
\* id, and the recomputation never starts before the insert.
C7_ReturnsAfterRecompute ==
  [][\A s \in Sessions :
       /\ (fn[s] = "createReview" /\ ret[s] = "pending" /\ ret'[s] = "ok")
            => /\ pc[s] = "updateDoc"
               /\ newId'[s] = newId[s]
               /\ newId[s] \in 1..Len(reviews)
               /\ reviews[newId[s]].id = newId[s]
               /\ reviews[newId[s]].productId = arg[s].productId
               /\ reviews[newId[s]].authorId = arg[s].authorId
               /\ products'[arg[s].productId].rating = AverageRating(snap[s])
               /\ reviews[newId[s]] \in DocsOf(snap[s])
       /\ (fn[s] = "createReview" /\ pc[s] = "addDoc")
            => pc'[s] \in {"addDoc", "getDocs", "idle"}
       /\ (fn'[s] = "createReview" /\ pc'[s] \in {"getDocs", "updateDoc"})
            => newId'[s] \in 1..Len(reviews')
    ]_vars

\* a createReview call returned the id of its review
C7_Witness ==
  \E s \in Sessions :
    /\ fn[s] = "createReview"
    /\ ret[s] = "ok"
    /\ newId[s] \in 1..Len(reviews)
    /\ reviews[newId[s]].authorId = arg[s].authorId
    /\ IsDoc(products[arg[s].productId])

C9_NoCreateWhenReviewed ==
  [][\A s \in Sessions :
       /\ (s \in mounted /\ hasReviewed[s] /\ pc[s] = "idle")
            => pc'[s] = "idle" /\ ret'[s] = ret[s] /\ fn'[s] = fn[s]
       /\ (toast'[s] = "already" /\ toast[s] # "already")
            => /\ hasReviewed[s]
               /\ reviews' = reviews
               /\ products' = products
               /\ pc' = pc
    ]_vars

\* onSubmit ran with hasReviewed true although the user has a review stored
C9_Witness ==
  \E s \in Sessions :
    /\ s \in mounted
    /\ hasReviewed[s]
    /\ toast[s] = "already"
    /\ pc[s] = "idle"
    /\ HasUserReviewed(reviews, productId[s], user[s])

\* C10: without a store handle nothing is requested from the store and nothing
\* changes in it, and every call of an exported function of the review module
\* has failed with the configuration error.
C10_FailsFastWithoutDb ==
  ~dbOk =>
    /\ reviews = <<>>
    /\ \A p \in ProductIds : products[p] = NoDoc
    /\ \A s \in Sessions :
         /\ pc[s] = "idle"
         /\ checkPc[s] = "idle"
         /\ ret[s] = (IF fn[s] = "none" THEN "none" ELSE ConfigError)
         /\ checkRet[s] \in {"none", ConfigError}
         /\ sub[s] \in {"none", "threw"}

\* without a store handle a caller has called createReview, hasUserReviewed and
\* subscribeToProductReviews, and each has thrown
C10_Witness ==
  \E s \in Sessions :
    /\ ~dbOk
    /\ fn[s] = "createReview"
    /\ ret[s] = ConfigError
    /\ checkRet[s] = ConfigError
    /\ sub[s] = "threw"

\* C11: a store request of createReview, updateProductRating or hasUserReviewed
\* ends in one of two ways only.  Either it was served, and its effect is there
\* (the review appended, the array read, the rating written, the answer of the
\* query), or the call is rejected in that very step: it returns an error, not a
\* value, nothing is stored, and no request of the call is left in flight, so the
\* request is not issued again.
C11_StoreFailurePropagates ==
  [][\A s \in Sessions :
       /\ (pc[s] = "addDoc" /\ pc'[s] # "addDoc")
            => \/ /\ Len(reviews') = Len(reviews) + 1
                  /\ reviews' = Append(reviews, reviews'[Len(reviews')])
                  /\ reviews'[Len(reviews')].authorId = arg[s].authorId
                  /\ pc'[s] = "getDocs" /\ ret'[s] = "pending"
               \/ /\ pc'[s] = "idle" /\ ret'[s] \in Errors /\ ret'[s] # "ok"
                  /\ reviews' = reviews /\ products' = products
       /\ (pc[s] = "getDocs" /\ pc'[s] # "getDocs")
            => \/ /\ snap'[s] \in QueryResults(reviews, arg[s].productId, SortByOf(s))
                  /\ \/ pc'[s] = "updateDoc" /\ ret'[s] = "pending" /\ snap'[s] # <<>>
                     \/ pc'[s] = "idle" /\ ret'[s] = "ok"
               \/ /\ pc'[s] = "idle" /\ ret'[s] \in Errors /\ ret'[s] # "ok"
                  /\ reviews' = reviews /\ products' = products
       /\ (pc[s] = "updateDoc" /\ pc'[s] # "updateDoc")
            => \/ /\ IsDoc(products[arg[s].productId])
                  /\ products' = SetRating(products, arg[s].productId,
                                            AverageRating(snap[s]))
                  /\ pc'[s] = "idle" /\ ret'[s] = "ok"
               \/ /\ pc'[s] = "idle" /\ ret'[s] \in Errors /\ ret'[s] # "ok"
                  /\ reviews' = reviews /\ products' = products
       /\ (checkPc[s] = "pending" /\ checkPc'[s] # "pending")
            => \/ checkRet'[s] = (IF \E i \in 1..Len(reviews) :
                                        /\ reviews[i].productId = checkArg[s][1]
                                        /\ reviews[i].authorId = checkArg[s][2]
                                    THEN "true" ELSE "false")
               \/ /\ checkRet'[s] \in Errors
                  /\ hasReviewed' = hasReviewed
    ]_vars

\* a createReview call was rejected with the store's error after its insert had
\* landed, and a hasUserReviewed call of the same caller was rejected too
C11_Witness ==
  \E s \in Sessions :
    /\ fn[s] = "createReview"
    /\ ret[s] = StoreError
    /\ pc[s] = "idle"
    /\ \E i \in 1..Len(reviews) : reviews[i].authorId = arg[s].authorId
    /\ checkRet[s] = StoreError
    /\ checkPc[s] = "idle"

C13_HasUserReviewedIffStored ==
  [][\A s \in Sessions :
       (checkPc[s] = "pending" /\ checkRet'[s] \in {"true", "false"})
         => (checkRet'[s] = "true"
               <=> \E i \in 1..Len(reviews) :
                     /\ reviews[i].productId = checkArg[s][1]
                     /\ reviews[i].authorId = checkArg[s][2])
    ]_vars

\* hasUserReviewed(p, u) answered false while the collection holds a review of u
\* on another product and a review of another user on p
C13_Witness ==
  \E s \in Sessions :
    /\ checkPc[s] = "idle"
    /\ checkRet[s] = "false"
    /\ fn[s] # "createReview"
    /\ \E i \in 1..Len(reviews) :
         reviews[i].productId # checkArg[s][1] /\ reviews[i].authorId = checkArg[s][2]
    /\ \E i \in 1..Len(reviews) :
         reviews[i].productId = checkArg[s][1] /\ reviews[i].authorId # checkArg[s][2]
    /\ \A i \in 1..Len(reviews) :
         ~(reviews[i].productId = checkArg[s][1] /\ reviews[i].authorId = checkArg[s][2])

\* C14: a product document gets its rating from two places only: its creation,
\* which stores 0, and the updateDoc of updateProductRating.
C14_RatingSetOnlyByRecompute ==
  [][\A p \in ProductIds :
       (IsDoc(products'[p])
          /\ (~IsDoc(products[p]) \/ products'[p].rating # products[p].rating))
         => \/ ~IsDoc(products[p]) /\ products'[p].rating = 0
            \/ /\ IsDoc(products[p])
               /\ \E s \in Sessions :
                    /\ pc[s] = "updateDoc"
                    /\ arg[s].productId = p
                    /\ ret'[s] = "ok"
                    /\ products'[p].rating = AverageRating(snap[s])
    ]_vars

\* the lists docs is compared with: every permutation of a list of MaxLen
\* documents or fewer, the reversed list of a longer one
Arrangements(docs) ==
  IF Len(docs) <= MaxLen
    THEN {[i \in 1..Len(docs) |-> docs[f[i]]] :
            f \in {g \in [1..Len(docs) -> 1..Len(docs)] :
                     \A i, j \in 1..Len(docs) : g[i] = g[j] => i = j}}
    ELSE {Reverse(docs)}

C16_BucketsAddUpToTotal ==
  \A s \in Sessions :
    stats[s] # NoStats
      => /\ \A i \in 1..Len(reviews) : reviews[i].rating >= 10 /\ reviews[i].rating <= 50
         /\ stats[s].distribution[1] + stats[s].distribution[2]
              + stats[s].distribution[3] + stats[s].distribution[4]
              + stats[s].distribution[5] = stats[s].total

\* statistics of three reviews rated 1.0, 5.0 and 4.5
C16_Witness ==
  \E s \in Sessions :
    /\ stats[s] # NoStats
    /\ stats[s].total = 3
    /\ {snap[s][i].rating : i \in 1..Len(snap[s])} = {10, 45, 50}
    /\ stats[s] = CalculateReviewStats(snap[s])

C18_BucketIsHalfUpRounding ==
  [][\A s \in Sessions :
       stats'[s] # stats[s]
         => \A b \in 1..5 :
              stats'[s].distribution[b]
                = Cardinality({i \in 1..Len(snap[s]) :
                                 /\ 10 * b - 5 <= snap[s][i].rating
                                 /\ snap[s][i].rating < 10 * b + 5})
    ]_vars

\* the ratings 4.5, 2.5 and 1.0 counted in the buckets 5, 3 and 1
C18_Witness ==
  \E s \in Sessions :
    /\ stats[s] # NoStats
    /\ {snap[s][i].rating : i \in 1..Len(snap[s])} = {45, 25, 10}
    /\ Len(snap[s]) = 3
    /\ stats[s].distribution = [b \in 1..5 |-> IF b \in {1, 3, 5} THEN 1 ELSE 0]

\* C19: the array getProductReviews(p, sortBy) returns holds each stored review
\* of product p once and no other document, newest first when sortBy is 'recent'
\* and highest rating first when it is 'rating'.
C19_QueryFiltersAndOrders ==
  [][\A s \in Sessions :
       (fn[s] = "getProductReviews" /\ pc[s] = "getDocs" /\ ret'[s] = "ok")
         => /\ {snap'[s][i] : i \in 1..Len(snap'[s])}
                 = {reviews[i] : i \in {j \in 1..Len(reviews) :
                                          reviews[j].productId = arg[s].productId}}
            /\ \A i, j \in 1..Len(snap'[s]) : snap'[s][i] = snap'[s][j] => i = j
            /\ arg[s].sortBy = "recent"
                 => \A i, j \in 1..Len(snap'[s]) :
                      i < j => snap'[s][i].createdAt > snap'[s][j].createdAt
            /\ arg[s].sortBy = "rating"
                 => \A i, j \in 1..Len(snap'[s]) :
                      i < j => snap'[s][i].rating >= snap'[s][j].rating
    ]_vars

\* getProductReviews(p, 'rating') returned two reviews of p, the older and higher
\* rated one first, while the collection holds a review of another product
C19_Witness ==
  \E s \in Sessions :
    /\ fn[s] = "getProductReviews" /\ ret[s] = "ok"
    /\ arg[s].sortBy = "rating"
    /\ Len(snap[s]) = 2
    /\ snap[s][1].rating > snap[s][2].rating
    /\ snap[s][1].createdAt < snap[s][2].createdAt
    /\ Len(reviews) = 3
    /\ \E i \in 1..3 : reviews[i].productId # arg[s].productId

\* the last array the listener of s passed to the callback, as a set
LastDelivered(s) == {feed[s][Len(feed[s])][i] : i \in 1..Len(feed[s][Len(feed[s])])}

\* the callback of s has been called with an array holding the i-th stored review
Delivered(s, i) ==
  /\ feed[s] # <<>>
  /\ i <= Len(reviews)
  /\ reviews[i] \in LastDelivered(s)

C21_EachHandleInvokedOnce ==
  \A s \in Sessions :
    /\ \A i \in 1..Len(handles[s]) :
         handles[s][i] = IF i = Len(handles[s]) /\ s \in mounted THEN 0 ELSE 1
    /\ Cardinality(ActiveHandles(s)) <= 1
    /\ s \notin mounted => ActiveHandles(s) = {}

\* an instance that changed its order and its product and then unmounted
C21_Witness ==
  \E s \in Sessions :
    /\ s \notin mounted
    /\ Len(handles[s]) = 3
    /\ \A i \in 1..3 : handles[s][i] = 1
    /\ subArg[s] = [productId |-> "p2", sortBy |-> "rating"]

\* C22: a review that is stored keeps its place and all its fields (rating,
\* comment, productId, authorId, createdAt) through every step of createReview,
\* updateProductRating, getProductReviews, hasUserReviewed and
\* subscribeToProductReviews: the collection only grows at its end
C22_ReviewsAreImmutable ==
  [][/\ Len(reviews') >= Len(reviews)
     /\ \A i \in 1..Len(reviews) : reviews'[i] = reviews[i]]_vars

\* two stored reviews, the first with the fields it was created with, after a
\* rating was recomputed, a hasUserReviewed call answered and a listener attached
C22_Witness ==
  /\ Len(reviews) = 2
  /\ reviews[1].comment = Comment
  /\ reviews[1].createdAt = 1
  /\ \E p \in ProductIds : IsDoc(products[p]) /\ products[p].rating > 0
  /\ \E s \in Sessions : sub[s] = "active" /\ checkRet[s] = "true"

\* C23: no update of a product changes its creator or its creation timestamp
\* (its identifier is the key of the document, which no update can change):
\* whatever updateProduct is given, createdBy and createdAt stay as they were
C23_UpdateKeepsCreatorAndCreation ==
  [][\A p \in ProductIds :
       IsDoc(products[p]) /\ IsDoc(products'[p]) =>
         /\ products'[p].createdBy = products[p].createdBy
         /\ products'[p].createdAt = products[p].createdAt]_vars

\* C24: deleteProduct removes the product document and nothing else: the step
\* that deletes a product leaves the review collection as it was, the reviews
\* of that product included
C24_DeleteLeavesReviews ==
  [][\A p \in ProductIds :
       IsDoc(products[p]) /\ products'[p] = Deleted =>
         /\ reviews' = reviews
         /\ \A q \in ProductIds \ {p} : products'[q] = products[q]]_vars

\* a deleted product whose review is still stored
C24_Witness ==
  \E p \in ProductIds :
    /\ products[p] = Deleted
    /\ \E i \in 1..Len(reviews) : reviews[i].productId = p

\* C25: whenever updateProductRating writes, the rating it writes is the average
\* calculateReviewStats returns for the list the call read
C25_WrittenRatingIsStatsAverage ==
  [][\A s \in Sessions :
       fn[s] = "updateProductRating" /\ pc[s] = "updateDoc" /\ ret'[s] = "ok" =>
         /\ snap[s] # <<>>
         /\ products'[arg[s].productId].rating = CalculateReviewStats(snap[s]).average]_vars

\* the ratings 5, 4 and 3 of product p1: its stored rating and the average of the
\* statistics are both 4.0
C25_Witness ==
  \E s \in Sessions :
    /\ {reviews[i].rating : i \in 1..Len(reviews)} = {30, 40, 50}
    /\ \A i \in 1..Len(reviews) : reviews[i].productId = "p1"
    /\ Len(reviews) = 3
    /\ stats[s] = CalculateReviewStats(reviews)
    /\ stats[s].average = 40
    /\ fn[s] = "updateProductRating" /\ ret[s] = "ok"
    /\ products["p1"].rating = 40

\* C26: the store steps of updateProductRating(p) change nothing but the rating
\* field of product p: the reviews, the other products and the other fields of
\* p stay as they are, and nothing at all is written when p has no reviews
C26_RecomputeWritesOnlyRating ==
  [][\A s \in Sessions :
       fn[s] = "updateProductRating" /\ pc[s] # "idle" /\ pc'[s] # pc[s] =>
         LET p == arg[s].productId
         IN /\ reviews' = reviews
            /\ \A q \in ProductIds \ {p} : products'[q] = products[q]
            /\ products'[p] = [products[p] EXCEPT !.rating = products'[p].rating]
            /\ Matching(reviews, p) = {} => products' = products]_vars

\* a recomputation that changed the rating of p1 and left its creator in place
C26_Witness ==
  \E s \in Sessions :
    /\ fn[s] = "updateProductRating" /\ ret[s] = "ok" /\ arg[s].productId = "p1"
    /\ Matching(reviews, "p1") # {}
    /\ Matching(reviews, "p2") # {}
    /\ products["p1"].rating > 0
    /\ products["p1"].createdBy = "u1"
    /\ products["p2"].rating = 0

\* C28: the stored review ratings being within 1 to 5 stars, the value
\* updateProductRating is about to write is within 1.0 and 5.0, and the rating
\* of every product is within 0.0 and 5.0
C28_RatingsInRange ==
  /\ \A i \in 1..Len(reviews) : reviews[i].rating >= 10 /\ reviews[i].rating <= 50
  /\ \A s \in Sessions :
       pc[s] = "updateDoc" /\ fn[s] = "updateProductRating" =>
         AverageRating(snap[s]) >= 10 /\ AverageRating(snap[s]) <= 50
  /\ \A p \in ProductIds :
       IsDoc(products[p]) => products[p].rating >= 0 /\ products[p].rating <= 50

\* recomputations wrote the two ends of the range: 5.0 to p1 and 1.0 to p2
C28_Witness ==
  /\ products["p1"].rating = 50
  /\ products["p2"].rating = 10
  /\ Len(reviews) = 3

\* ratings of rs whose rounding to an integer, halves up, is outside 1..5
OutOfBuckets(rs) == {i \in 1..Len(rs) : rs[i] < 5 \/ rs[i] >= 55}

\* C27: calculateReviewStats returns a result for a list that holds ratings
\* rounding outside 1..5: such a review is in no bucket (bucket b counts the
\* ratings from b - 0.5 up to, not including, b + 0.5, so the buckets add up to
\* the total less those reviews), and it counts in total and in average, the
\* tenth nearest the mean of all the ratings
C27_OutOfRangeLeftOutOfBuckets ==
  [][\A s \in Sessions :
       stats'[s] # stats[s] =>
         LET rs == RatingsOf(snap[s])
             d == stats'[s].distribution
         IN /\ DOMAIN d = 1..5
            /\ \A b \in 1..5 :
                 d[b] = Cardinality({i \in 1..Len(rs) :
                                       rs[i] >= 10 * b - 5 /\ rs[i] < 10 * b + 5})
            /\ d[1] + d[2] + d[3] + d[4] + d[5] = Len(rs) - Cardinality(OutOfBuckets(rs))
            /\ stats'[s].total = Len(rs)
            /\ Len(rs) > 0 => IsNearestTenth(stats'[s].average, rs)
    ]_vars

\* the statistics of the ratings 0, 6.0 and 4.5: total 3, average 3.5, and one
\* review in the buckets
C27_Witness ==
  \E s \in Sessions :
    /\ stats[s] # NoStats
    /\ stats[s] = CalculateReviewStats(snap[s])
    /\ {snap[s][i].rating : i \in 1..Len(snap[s])} = {0, 45, 60}
    /\ stats[s].total = 3
    /\ stats[s].average = 35
    /\ stats[s].distribution = [b \in 1..5 |-> IF b = 5 THEN 1 ELSE 0]

\* C29: a render of ProtectedRoute returns its children only if loading is false
\* and a user is present, and it calls router.push("/login") only if loading is
\* false and the user is null, never while loading is true
C29_ChildrenAndRedirectAfterLoading ==
  [][/\ shown' = "children" /\ <<shown', seen'>> # <<shown, seen>> =>
          ~authLoading /\ authUser # NoUser /\ pushed' = pushed
     /\ pushed' # pushed =>
          /\ pushed' = Append(pushed, "/login")
          /\ ~authLoading /\ authUser = NoUser
          /\ shown' = "null"
     /\ authLoading /\ shown' # shown => shown' = "spinner" /\ pushed' = pushed]_vars

\* the route showed the spinner while loading, then the children of a signed-in
\* user, and redirected once the user had signed out
C29_Witness ==
  /\ pushed = <<"/login">>
  /\ shown = "children"
  /\ seen[1] # NoUser
  /\ ~authLoading

\* the review form is rendered: {user && !hasReviewed && (...)}
FormOffered(s) == s \in mounted /\ user[s] # NoUser /\ ~hasReviewed[s]

\* C30: for a mounted instance with a signed-in user, hasReviewed is the answer
\* of hasUserReviewed for the instance's current productId and user: the form is
\* offered only once that check answered false for the current pair, and the
\* flag is set only if that check answered true for it
C30_FlagReflectsCurrentCheck ==
  \A s \in mounted :
    user[s] # NoUser =>
      /\ checkArg[s] = <<productId[s], user[s]>>
      /\ FormOffered(s) => checkRet[s] = "false"
      /\ hasReviewed[s] => checkRet[s] = "true"

\* the check of the current pair answered false while the flag holds the answer
\* of a check that was made for the previous productId
StaleAnswerKept ==
  \E s \in mounted :
    /\ user[s] = "u1" /\ productId[s] = "p2"
    /\ checkArg[s] = <<"p2", "u1">> /\ checkRet[s] = "false"
    /\ stale[s] = {}
    /\ hasReviewed[s]
====
